---- MODULE Spec2Model ----
(***************************************************************************)
(* PyCeWL (src/pycewl.py): a depth-bounded, same-netloc recursive crawler  *)
(* that tallies the words (and optionally the e-mail addresses) of the     *)
(* pages it fetches.                                                       *)
(*                                                                         *)
(* Strings are sequences of code points.  A code point is written as the   *)
(* one-character string itself, or as "U+XXXX" for a non-ASCII one.        *)
(***************************************************************************)
EXTENDS Integers, Sequences, FiniteSets, TLC

(***************************************************************************)
(* Bounds of the model.                                                    *)
(***************************************************************************)
\* largest crawl depth (-d) tried
MaxDepth == 2
\* largest number of <a href> elements on one page
MaxLinks == 2
\* longest text the e-mail extraction is explored on
MaxTextLen == 6

(***************************************************************************)
(* Python values.                                                          *)
(***************************************************************************)
\* None, for the optional arguments of __init__ (an empty option)
None == <<>>
\* a present optional value
Some(v) == <<v>>

Max(S) == CHOOSE x \in S : \A y \in S : y <= x

\* F applied to the value of v (v is evaluated once)
Let(v, F(_)) == CHOOSE r \in {F(x) : x \in {v}} : TRUE

(***************************************************************************)
(* Code points and character classes.                                      *)
(***************************************************************************)
UpperSeq == <<"A","B","C","D","E","F","G","H","I","J","K","L","M",
              "N","O","P","Q","R","S","T","U","V","W","X","Y","Z">>
LowerSeq == <<"a","b","c","d","e","f","g","h","i","j","k","l","m",
              "n","o","p","q","r","s","t","u","v","w","x","y","z">>
Range(s) == {s[i] : i \in DOMAIN s}
AsciiUpper == Range(UpperSeq)
AsciiLower == Range(LowerSeq)
AsciiLetter == AsciiUpper \cup AsciiLower
Digit == {"0","1","2","3","4","5","6","7","8","9"}
\* U+00C0..U+00FF, the range written À-ÿ; U+00D7 is the multiplication sign
Latin1Upper == {"U+00C9"}
Latin1Lower == {"U+00E9"}
Latin1Range == Latin1Upper \cup Latin1Lower \cup {"U+00D7"}
\* U+0100..U+024F; U+0130 is LATIN CAPITAL LETTER I WITH DOT ABOVE
LatinExtRange == {"U+0130"}

\* \w under re.UNICODE: alphanumerics and the underscore
IsWordChar(c) ==
    c \in AsciiLetter \cup Digit \cup {"_"} \cup Latin1Upper \cup Latin1Lower
          \cup LatinExtRange

\* str.lower() of one code point; U+0130 lowers to "i" + U+0307 (two code points)
LowerChar(c) ==
    IF c \in AsciiUpper
    THEN <<LowerSeq[CHOOSE i \in DOMAIN UpperSeq : UpperSeq[i] = c]>>
    ELSE IF c = "U+00C9" THEN <<"U+00E9">>
    ELSE IF c = "U+0130" THEN <<"i", "U+0307">>
    ELSE <<c>>

\* str.lower()
lower(s) ==
    LET L[i \in 0..Len(s)] == IF i = 0 THEN <<>> ELSE L[i - 1] \o LowerChar(s[i])
    IN  L[Len(s)]

\* \b at offset p of text (between text[p] and text[p+1], 1-based)
WordBoundary(text, p) ==
    LET before == p >= 1 /\ p <= Len(text) /\ IsWordChar(text[p])
        after  == p + 1 >= 1 /\ p + 1 <= Len(text) /\ IsWordChar(text[p + 1])
    IN  before # after

(***************************************************************************)
(* extract_words                                                           *)
(***************************************************************************)
\* the character class of the word pattern
WordClass(withNumbers, c) ==
    IF withNumbers
    THEN IsWordChar(c) \/ c \in Latin1Range \cup LatinExtRange
    ELSE c \in AsciiLetter \cup Latin1Range

\* end of the match of \b[class]+\b that starts at pos, 0 when there is none
WordMatchEnd(withNumbers, text, pos) ==
    LET ends == {e \in pos..Len(text) :
                    /\ \A k \in pos..e : WordClass(withNumbers, text[k])
                    /\ WordBoundary(text, e)}
    IN  IF WordBoundary(text, pos - 1) /\ ends # {} THEN Max(ends) ELSE 0

\* re.findall(pattern, text): leftmost, greedy, non-overlapping, from pos on
FindAllWords(withNumbers, text, pos) ==
    LET F[p \in 1..(Len(text) + 1)] ==
            IF p > Len(text) THEN <<>>
            ELSE Let(WordMatchEnd(withNumbers, text, p),
                     LAMBDA e : IF e = 0 THEN F[p + 1]
                                ELSE <<SubSeq(text, p, e)>> \o F[e + 1])
    IN  F[pos]

\* the length test of one matched word
KeepWord(word, minLen, maxLen) ==
    /\ Len(word) >= minLen
    /\ (maxLen = None \/ Len(word) <= maxLen[1])

\* what is appended for a kept word
NormalizeWord(word) == lower(word)

\* the loop of lines 64-69
FilterWords(ws, minLen, maxLen) ==
    LET F[i \in 0..Len(ws)] ==
            IF i = 0 THEN <<>>
            ELSE F[i - 1] \o (IF KeepWord(ws[i], minLen, maxLen)
                              THEN <<NormalizeWord(ws[i])>> ELSE <<>>)
    IN  F[Len(ws)]

extract_words(text, withNumbers, minLen, maxLen) ==
    Let(FindAllWords(withNumbers, text, 1),
        LAMBDA ws : FilterWords(ws, minLen, maxLen))

(***************************************************************************)
(* extract_emails                                                          *)
(***************************************************************************)
EmailLocalClass == AsciiLetter \cup Digit \cup {".", "_", "%", "+", "-"}
EmailDomainClass == AsciiLetter \cup Digit \cup {".", "-"}
\* [A-Z|a-z]: the bar is a member of the class
EmailTldClass == AsciiLetter \cup {"|"}

AllIn(text, from, to, class) == \A k \in from..to : text[k] \in class

\* the matches of the e-mail pattern that start at pos, as <<e1, e2, e3>>:
\* local part pos..e1, "@" at e1+1, domain e1+2..e2, "." at e2+1, last label
\* e2+2..e3
EmailMatches(text, pos) ==
    LET n == Len(text)
        E1 == {e \in pos..(n - 1) :
                 AllIn(text, pos, e, EmailLocalClass) /\ text[e + 1] = "@"}
        E2(e1) == {e \in (e1 + 2)..(n - 1) :
                     AllIn(text, e1 + 2, e, EmailDomainClass) /\ text[e + 1] = "."}
        E3(e2) == {e \in (e2 + 3)..n :
                     AllIn(text, e2 + 2, e, EmailTldClass) /\ WordBoundary(text, e)}
    IN  UNION {UNION {{<<e1, e2, e3>> : e3 \in E3(e2)} : e2 \in E2(e1)} : e1 \in E1}

\* the match a backtracking matcher with greedy quantifiers finds first: the
\* longest local part, then the longest domain, then the longest last label
FirstMatch(ms) ==
    LET e1 == Max({m[1] : m \in ms})
        e2 == Max({m[2] : m \in {x \in ms : x[1] = e1}})
    IN  Max({m[3] : m \in {x \in ms : x[1] = e1 /\ x[2] = e2}})

\* end of the match of the e-mail pattern that starts at pos, 0 when none
EmailMatchEnd(text, pos) ==
    IF ~WordBoundary(text, pos - 1) THEN 0
    ELSE Let(EmailMatches(text, pos),
             LAMBDA ms : IF ms = {} THEN 0 ELSE FirstMatch(ms))

FindAllEmails(text, pos) ==
    LET F[p \in 1..(Len(text) + 1)] ==
            IF p > Len(text) THEN <<>>
            ELSE Let(EmailMatchEnd(text, p),
                     LAMBDA e : IF e = 0 THEN F[p + 1]
                                ELSE <<SubSeq(text, p, e)>> \o F[e + 1])
    IN  F[pos]

extract_emails(text) == FindAllEmails(text, 1)

(***************************************************************************)
(* urllib.parse, for URLs without ";" parameters, control characters or    *)
(* upper-case scheme letters.                                              *)
(***************************************************************************)
\* index of the first occurrence of a member of cs in s at or after from,
\* Len(s) + 1 when there is none
FindAny(s, cs, from) ==
    LET hits == {i \in from..Len(s) : s[i] \in cs}
    IN  IF hits = {} THEN Len(s) + 1 ELSE CHOOSE i \in hits : \A j \in hits : i <= j

StartsWith(s, p) == Len(s) >= Len(p) /\ SubSeq(s, 1, Len(p)) = p

SchemeChars == AsciiLetter \cup Digit \cup {"+", "-", "."}
http == <<"h","t","t","p">>
https == <<"h","t","t","p","s">>
\* urllib.parse.uses_relative and uses_netloc, as far as the model's alphabet goes
UsesRelative == {<<>>, http, https}
UsesNetloc == {<<>>, http, https}

\* urlsplit, the scheme: [scheme, rest]
SplitScheme(url, defaultScheme) ==
    LET colon == FindAny(url, {":"}, 1)
    IN  IF /\ colon > 1 /\ colon <= Len(url)
           /\ url[1] \in AsciiLetter
           /\ \A k \in 1..(colon - 1) : url[k] \in SchemeChars
        THEN [scheme |-> SubSeq(url, 1, colon - 1),
              rest |-> SubSeq(url, colon + 1, Len(url))]
        ELSE [scheme |-> defaultScheme, rest |-> url]

\* urlsplit, the netloc (_splitnetloc): [netloc, rest]
SplitNetloc(url) ==
    IF StartsWith(url, <<"/", "/">>)
    THEN LET delim == FindAny(url, {"/", "?", "#"}, 3)
         IN  [netloc |-> SubSeq(url, 3, delim - 1),
              rest |-> SubSeq(url, delim, Len(url))]
    ELSE [netloc |-> <<>>, rest |-> url]

\* urlsplit, the fragment and the query: [path, query, fragment]
SplitTail(url) ==
    LET hash == FindAny(url, {"#"}, 1)
        qm == FindAny(SubSeq(url, 1, hash - 1), {"?"}, 1)
    IN  [path |-> SubSeq(url, 1, qm - 1),
         query |-> SubSeq(url, qm + 1, hash - 1),
         fragment |-> SubSeq(url, hash + 1, Len(url))]

\* urlsplit: [scheme, netloc, path, query, fragment, invalid]; invalid stands
\* for ValueError("Invalid IPv6 URL")
UrlSplitWith(url, defaultScheme) ==
    Let(SplitScheme(url, defaultScheme), LAMBDA s :
    Let(SplitNetloc(s.rest), LAMBDA n :
    Let(SplitTail(n.rest), LAMBDA t :
        [scheme |-> s.scheme,
         netloc |-> n.netloc,
         path |-> t.path,
         query |-> t.query,
         fragment |-> t.fragment,
         invalid |-> ("[" \in Range(n.netloc)) # ("]" \in Range(n.netloc))])))

urlparse(url) == UrlSplitWith(url, <<>>)

\* urlunparse of the parts
urlunparse(scheme, netloc, path, query, fragment) ==
    LET u1 == IF netloc # <<>>
                 \/ (scheme # <<>> /\ scheme \in UsesNetloc
                     /\ ~StartsWith(path, <<"/", "/">>))
              THEN <<"/", "/">> \o netloc
                   \o (IF path # <<>> /\ path[1] # "/" THEN <<"/">> ELSE <<>>)
                   \o path
              ELSE path
    IN  (IF scheme # <<>> THEN scheme \o <<":">> ELSE <<>>) \o u1
        \o (IF query # <<>> THEN <<"?">> \o query ELSE <<>>)
        \o (IF fragment # <<>> THEN <<"#">> \o fragment ELSE <<>>)

\* str.split(sep) for a one-character separator
Split(s, sep) ==
    LET P[from \in 1..(Len(s) + 1)] ==
            Let(FindAny(s, {sep}, from),
                LAMBDA i : IF i > Len(s) THEN <<SubSeq(s, from, Len(s))>>
                           ELSE <<SubSeq(s, from, i - 1)>> \o P[i + 1])
    IN  P[1]

\* sep.join(parts)
Join(parts, sep) ==
    LET J[i \in 0..Len(parts)] ==
            IF i = 0 THEN <<>>
            ELSE IF i = 1 THEN parts[1]
            ELSE J[i - 1] \o <<sep>> \o parts[i]
    IN  J[Len(parts)]

\* filter(None, segments)
DropEmpty(segs) == SelectSeq(segs, LAMBDA x : x # <<>>)

\* the loop over segments that builds resolved_path
ResolveDots(segs) ==
    LET R[i \in 0..Len(segs)] ==
            IF i = 0 THEN <<>>
            ELSE Let(R[i - 1], LAMBDA acc :
                     IF segs[i] = <<".", ".">>
                     THEN (IF acc = <<>> THEN acc ELSE SubSeq(acc, 1, Len(acc) - 1))
                     ELSE IF segs[i] = <<".">> THEN acc
                     ELSE Append(acc, segs[i]))
    IN  R[Len(segs)]

\* base_parts of urljoin
BaseParts(bpath) ==
    Let(Split(bpath, "/"), LAMBDA parts :
        IF parts[Len(parts)] # <<>> THEN SubSeq(parts, 1, Len(parts) - 1) ELSE parts)

\* segments of urljoin
Segments(bpath, path) ==
    IF StartsWith(path, <<"/">>) THEN Split(path, "/")
    ELSE Let(BaseParts(bpath) \o Split(path, "/"), LAMBDA segs :
             IF Len(segs) <= 2 THEN segs
             ELSE <<segs[1]>> \o DropEmpty(SubSeq(segs, 2, Len(segs) - 1))
                  \o <<segs[Len(segs)]>>)

\* the path of urljoin's result when the reference has a path
JoinPath(bpath, path) ==
    Let(Segments(bpath, path), LAMBDA segments :
    Let(Join(IF segments[Len(segments)] \in {<<".">>, <<".", ".">>}
             THEN Append(ResolveDots(segments), <<>>)
             ELSE ResolveDots(segments), "/"), LAMBDA joined :
        IF joined = <<>> THEN <<"/">> ELSE joined))

\* urljoin(base, url) raises ValueError
UrlJoinRaises(base, url) ==
    /\ base # <<>> /\ url # <<>>
    /\ (urlparse(base).invalid \/ urlparse(url).invalid)

\* urljoin once base and url are split into b and u
JoinParts(url, b, u) ==
    IF u.scheme # b.scheme \/ u.scheme \notin UsesRelative THEN url
    ELSE IF u.scheme \in UsesNetloc /\ u.netloc # <<>>
    THEN urlunparse(u.scheme, u.netloc, u.path, u.query, u.fragment)
    ELSE IF u.path = <<>>
    THEN urlunparse(u.scheme, IF u.scheme \in UsesNetloc THEN b.netloc ELSE u.netloc,
                    b.path, IF u.query = <<>> THEN b.query ELSE u.query, u.fragment)
    ELSE urlunparse(u.scheme, IF u.scheme \in UsesNetloc THEN b.netloc ELSE u.netloc,
                    JoinPath(b.path, u.path), u.query, u.fragment)

\* urljoin(base, url), when it does not raise
urljoin(base, url) ==
    IF base = <<>> THEN url
    ELSE IF url = <<>> THEN base
    ELSE Let(urlparse(base), LAMBDA b :
         Let(UrlSplitWith(url, b.scheme), LAMBDA u : JoinParts(url, b, u)))

\* next_url.split('#')[0]
StripFragment(url) == Split(url, "#")[1]

\* mutant: every URL in scope
is_valid_url_any(startUrl, url) == TRUE
\* PyCeWL.is_valid_url, for a start URL and a URL that urlparse accepts
is_valid_url(startUrl, url) == urlparse(startUrl).netloc = urlparse(url).netloc

(***************************************************************************)
(* Counter and set updates                                                 *)
(***************************************************************************)
\* the number of occurrences of key in list
Count(list, key) == Cardinality({i \in DOMAIN list : list[i] = key})

\* mutant: the counts of the iterable replace the counter
CounterAssign(counter, iterable) == [k \in Range(iterable) |-> Count(iterable, k)]
\* Counter.update(iterable): every element of the iterable adds one to its
\* count, a missing key counting as 0
CounterUpdate(counter, iterable) ==
    Let(<<counter, iterable>>, LAMBDA a :
        [k \in DOMAIN a[1] \cup Range(a[2]) |->
            (IF k \in DOMAIN a[1] THEN a[1][k] ELSE 0) + Count(a[2], k)])

\* mutant: the elements of the iterable replace the set
SetAssign(set, iterable) == Range(iterable)
\* set.update(iterable)
SetUpdate(set, iterable) == set \cup Range(iterable)

\* the empty Counter
EmptyCounter == [k \in {} |-> 0]

(***************************************************************************)
(* The inputs: URLs, hrefs and documents the runs are checked on.          *)
(***************************************************************************)
UrlRoot == <<"h","t","t","p",":","/","/","a","/">>
UrlRootFragment == <<"h","t","t","p",":","/","/","a","/","#","f">>
UrlInvalid == <<"h","t","t","p",":","/","/","[">>
HrefB == <<"/","b">>
HrefRoot == <<"/">>
HrefC == <<"/","c">>
HrefQuery == <<"/","?","q">>
HrefFragment == <<"#","f">>
HrefScheme == <<"h","t","t","p","s",":","/","/","a","/","b">>
HrefOther == <<"h","t","t","p",":","/","/","x","/">>
HrefInvalid == <<"h","t","t","p",":","/","/","[">>

TextFox == <<"t","h","e"," ","q","u","i","c","k"," ","b","r","o","w","n"," ","f","o","x">>
TextMixed == <<"Q","u","i","c","k"," ","f","o","x","1"," ","U+0130">>
TextMail == <<"M","a","i","l"," ","a","@","b",".","c","d"," ","o","r"," ","x","@","y",".","z","z",","," ","a","@","b",".","c","d">>
MetaFox == <<"b","r","o","w","n"," ","F","o","x">>
MetaMail == <<"m","@","n",".","o","p">>

\* a response body: whether the parser accepts it, its visible text and the
\* content attributes of its <meta> elements
Document(parses, text, metas) == [parses |-> parses, text |-> text, metas |-> metas]
DocUnparseable == Document(FALSE, <<>>, <<>>)

\* the href lists of a page: the sequences of distinct members of S of length
\* at most n (a repeated target is met through hrefs that resolve alike)
LinkLists(S, n) ==
    {s \in UNION {[1..k -> S] : k \in 0..n} :
        \A i, j \in DOMAIN s : i # j => s[i] # s[j]}

(***************************************************************************)
(* State                                                                   *)
(***************************************************************************)
VARIABLES
    \* PyCeWL.__init__'s arguments (the CrawlConfig)
    start_url, depth, min_word_length, max_word_length, with_numbers,
    email_file, meta,
    \* the engine's state
    visited_urls, words, emails,
    \* the call stack of crawl(), innermost call last, and where run() stands
    stack, phase, result,
    \* the web: what the server can answer and what pages can link to
    site,
    \* what happened: the session.get calls in order, and per fetched URL the
    \* outcome, the document received and the hrefs found on it
    fetched, pages

config == <<start_url, depth, min_word_length, max_word_length, with_numbers,
            email_file, meta, site>>
engine == <<visited_urls, words, emails>>
vars == <<start_url, depth, min_word_length, max_word_length, with_numbers,
          email_file, meta, visited_urls, words, emails, stack, phase,
          result, site, fetched, pages>>

\* a call crawl(url, current_depth) that has not run yet
NewFrame(url, current_depth) ==
    [url |-> url, current_depth |-> current_depth, pc |-> "guard",
     response |-> DocUnparseable, links |-> <<>>, i |-> 1]

Top == stack[Len(stack)]
At(pc) == phase = "running" /\ stack # <<>> /\ Top.pc = pc
\* the innermost call returns
Pop == SubSeq(stack, 1, Len(stack) - 1)
\* the innermost call moves on
Goto(pc) == [stack EXCEPT ![Len(stack)].pc = pc]

\* the record of a fetch in pages
PageRecord(status, doc, current_depth) ==
    [status |-> status, doc |-> doc, hrefs |-> <<>>, current_depth |-> current_depth]
\* f with f[k] set to v
Put(f, k, v) == [x \in DOMAIN f \cup {k} |-> IF x = k THEN v ELSE f[x]]

(***************************************************************************)
(* Init: the state after PyCeWL(...) is constructed                        *)
(***************************************************************************)
\* the defaults of __init__'s signature
DefaultMinWordLength == 3
DefaultSettings ==
    [min_word_length |-> DefaultMinWordLength, max_word_length |-> None,
     with_numbers |-> FALSE, email_file |-> None, meta |-> TRUE]

Depths == -1..MaxDepth

\* lines 33-35
InitEngine ==
    /\ visited_urls = {}
    /\ words = EmptyCounter
    /\ emails = {}
    /\ stack = <<>>
    /\ phase = "constructed"
    /\ result = None
    /\ fetched = <<>>
    /\ pages = [u \in {} |-> PageRecord("ok", DocUnparseable, 0)]

\* the documents of the link crawls: a plain page and one the parser rejects
PlainDocs == {Document(TRUE, TextFox, <<>>), DocUnparseable}

\* the link crawls, as start URL and web (the hrefs its pages carry), under
\* the default settings: link graphs (chains, cycles, re-discovery, query
\* strings); scoping (path, scheme, host); fragments and an href that urljoin
\* rejects; a start URL that urlparse rejects
LinkCrawls ==
    {[start |-> c[1], docs |-> PlainDocs, hrefs |-> c[2], settings |-> DefaultSettings] :
        c \in {<<UrlRoot, {HrefRoot, HrefB, HrefQuery}>>,
               <<UrlRoot, {HrefB, HrefScheme, HrefOther}>>,
               <<UrlRootFragment, {HrefB, HrefFragment, HrefInvalid}>>,
               <<UrlInvalid, {HrefB}>>}}

\* the documents of the text crawls
TextDocs ==
    {Document(TRUE, TextFox, <<MetaFox>>),
     Document(TRUE, TextMixed, <<>>),
     Document(TRUE, TextMail, <<MetaMail, <<>>>>),
     DocUnparseable}

\* the settings of the text crawls: -m/-x, -n, -e, --no-meta
TextSettings ==
    {[min_word_length |-> l[1], max_word_length |-> l[2], with_numbers |-> n,
      email_file |-> e, meta |-> m] :
        l \in {<<DefaultMinWordLength, None>>, <<5, None>>, <<1, Some(1)>>},
        n \in BOOLEAN,
        e \in {None, Some(<<>>), Some(<<"e">>)},
        m \in BOOLEAN}

\* the text crawls: a two-page site under every setting
TextCrawls ==
    {[start |-> UrlRoot, docs |-> TextDocs, hrefs |-> {HrefB}, settings |-> t] :
        t \in TextSettings}

Crawls == LinkCrawls \cup TextCrawls

Init ==
    /\ \E c \in Crawls :
        /\ start_url = c.start
        /\ site = [docs |-> c.docs, hrefs |-> c.hrefs]
        /\ min_word_length = c.settings.min_word_length
        /\ max_word_length = c.settings.max_word_length
        /\ with_numbers = c.settings.with_numbers
        /\ email_file = c.settings.email_file
        /\ meta = c.settings.meta
    /\ depth \in Depths
    /\ InitEngine

(***************************************************************************)
(* run() and crawl()                                                       *)
(***************************************************************************)
\* lines 133-137: run() calls crawl(self.start_url)
Run ==
    /\ phase = "constructed"
    /\ phase' = "running"
    /\ stack' = <<NewFrame(start_url, 0)>>
    /\ UNCHANGED <<config, engine, result, fetched, pages>>

\* mutant: the depth test off by one
DepthExceededOffByOne(current_depth, maxDepth) == current_depth > maxDepth + 1
\* line 80, first test
DepthExceeded(current_depth, maxDepth) == current_depth > maxDepth
\* mutant: the visited test dropped
AlreadyVisitedNever(url, visited) == FALSE
\* line 80, second test
AlreadyVisited(url, visited) == url \in visited
\* mutant: the depth test left to the link loop alone
SkipsVisitedOnly(url, current_depth) == AlreadyVisited(url, visited_urls)
\* line 80
Skips(url, current_depth) ==
    DepthExceeded(current_depth, depth) \/ AlreadyVisited(url, visited_urls)
\* urlparse raises in is_valid_url
ScopeCheckRaises(url) == urlparse(start_url).invalid \/ urlparse(url).invalid

\* lines 80-81: return without fetching
CrawlSkip ==
    /\ At("guard")
    /\ Skips(Top.url, Top.current_depth)
    /\ stack' = Pop
    /\ UNCHANGED <<config, engine, phase, result, fetched, pages>>

\* line 83, outside the try: the ValueError of urlparse leaves crawl() and run()
CrawlRaise ==
    /\ At("guard")
    /\ ~Skips(Top.url, Top.current_depth)
    /\ ScopeCheckRaises(Top.url)
    /\ stack' = <<>>
    /\ phase' = "raised"
    /\ UNCHANGED <<config, engine, result, fetched, pages>>

\* lines 83-84: out of scope
CrawlOutOfScope ==
    /\ At("guard")
    /\ ~Skips(Top.url, Top.current_depth)
    /\ ~ScopeCheckRaises(Top.url)
    /\ ~is_valid_url(start_url, Top.url)
    /\ stack' = Pop
    /\ UNCHANGED <<config, engine, phase, result, fetched, pages>>

\* mutant: the URL is not marked before its fetch
MarkVisitedNot(visited, url) == visited
\* line 86
MarkVisited(visited, url) == visited \cup {url}

\* line 86: mark visited, then go on to fetch
CrawlVisit ==
    /\ At("guard")
    /\ ~Skips(Top.url, Top.current_depth)
    /\ ~ScopeCheckRaises(Top.url)
    /\ is_valid_url(start_url, Top.url)
    /\ visited_urls' = MarkVisited(visited_urls, Top.url)
    /\ stack' = Goto("get")
    /\ UNCHANGED <<config, words, emails, phase, result, fetched, pages>>

\* mutant: the exception is not caught in the call that raised it and unwinds
\* every crawl() call
CaughtNowhere == <<>>
\* mutant: after the report the call goes on to the links of the page
CaughtGoesOn == Goto("links")
\* what the except clauses (lines 128-131) do with an exception raised in the
\* try of the innermost call: report it and return from that call
Caught == Pop

\* lines 90-91 raise a RequestException (transport error, timeout, status)
FetchError ==
    /\ At("get")
    /\ fetched' = Append(fetched, [url |-> Top.url, current_depth |-> Top.current_depth])
    /\ pages' = Put(pages, Top.url,
                    PageRecord("fetch_error", DocUnparseable, Top.current_depth))
    /\ stack' = Caught
    /\ UNCHANGED <<config, engine, phase, result>>

\* lines 90-91 succeed: the response is some document of the site
FetchOk ==
    /\ At("get")
    /\ \E doc \in site.docs :
        /\ fetched' = Append(fetched,
                             [url |-> Top.url, current_depth |-> Top.current_depth])
        /\ pages' = Put(pages, Top.url,
                        PageRecord(IF doc.parses THEN "ok" ELSE "reduce_error",
                                   doc, Top.current_depth))
        /\ stack' = [Goto("parse") EXCEPT ![Len(stack)].response = doc]
    /\ UNCHANGED <<config, engine, phase, result>>

\* lines 93-100 raise: caught by line 130
ParseError ==
    /\ At("parse")
    /\ ~Top.response.parses
    /\ stack' = Caught
    /\ UNCHANGED <<config, engine, phase, result, fetched, pages>>

\* lines 93-100: the soup and its visible text
Parse ==
    /\ At("parse")
    /\ Top.response.parses
    /\ stack' = Goto("words")
    /\ UNCHANGED <<config, engine, phase, result, fetched, pages>>

\* lines 103-104
ExtractWords ==
    /\ At("words")
    /\ words' = CounterUpdate(words,
                    extract_words(Top.response.text, with_numbers,
                                  min_word_length, max_word_length))
    /\ stack' = Goto("emails")
    /\ UNCHANGED <<config, visited_urls, emails, phase, result, fetched, pages>>

\* mutant: e-mails are extracted whatever the setting
EmailsWantedAlways(emailFile) == TRUE
\* line 107: the truth value of self.email_file
EmailsWanted(emailFile) == emailFile # None /\ emailFile # Some(<<>>)

\* lines 107-109
ExtractEmails ==
    /\ At("emails")
    /\ emails' = IF EmailsWanted(email_file)
                 THEN SetUpdate(emails, extract_emails(Top.response.text))
                 ELSE emails
    /\ stack' = Goto("meta")
    /\ UNCHANGED <<config, visited_urls, words, phase, result, fetched, pages>>

\* lines 114-118: the loop over the meta tags
MetaUpdate(counter, metas) ==
    LET M[i \in 0..Len(metas)] ==
            IF i = 0 THEN counter
            ELSE IF metas[i] # <<>>
            THEN CounterUpdate(M[i - 1],
                    extract_words(metas[i], with_numbers,
                                  min_word_length, max_word_length))
            ELSE M[i - 1]
    IN  M[Len(metas)]

\* mutant: the meta contents are merged whatever the flag
MetaWantedAlways(m) == TRUE
\* line 112
MetaWanted(m) == m

\* lines 112-118
ExtractMeta ==
    /\ At("meta")
    /\ words' = IF MetaWanted(meta) THEN MetaUpdate(words, Top.response.metas)
                ELSE words
    /\ stack' = Goto("links")
    /\ UNCHANGED <<config, visited_urls, emails, phase, result, fetched, pages>>

\* line 121
FollowsLinks(current_depth, maxDepth) == current_depth < maxDepth

\* line 121 false: crawl() returns
LeafReturn ==
    /\ At("links")
    /\ ~FollowsLinks(Top.current_depth, depth)
    /\ stack' = Pop
    /\ UNCHANGED <<config, engine, phase, result, fetched, pages>>

\* lines 121-122: soup.find_all('a', href=True)
FindLinks ==
    /\ At("links")
    /\ FollowsLinks(Top.current_depth, depth)
    /\ \E hrefs \in LinkLists(site.hrefs, MaxLinks) :
        /\ stack' = [Goto("loop") EXCEPT ![Len(stack)].links = hrefs,
                                         ![Len(stack)].i = 1]
        /\ pages' = [pages EXCEPT ![Top.url].hrefs = hrefs]
    /\ UNCHANGED <<config, engine, phase, result, fetched>>

\* lines 123-125
NextUrl(url, href) == Let(urljoin(url, href), LAMBDA next_url : StripFragment(next_url))

\* mutant: a link is crawled at the depth of the page it is on
ChildDepthSame(current_depth) == current_depth
\* mutant: a link is crawled two levels down
ChildDepthSkips(current_depth) == current_depth + 2
\* line 126: the depth of the recursive call
ChildDepth(current_depth) == current_depth + 1

\* mutant: the loop does not advance
NextIndexSame(i) == i
\* the loop variable after an iteration
NextIndex(i) == i + 1

\* mutant: the links are taken from the last to the first
LinkAtReversed(links, i) == links[Len(links) + 1 - i]
\* line 122: the i-th link of the for loop
LinkAt(links, i) == links[i]

\* line 123 raises ValueError inside the try: caught by line 130, which ends
\* the loop and the call
LinkError ==
    /\ At("loop")
    /\ Top.i <= Len(Top.links)
    /\ UrlJoinRaises(Top.url, LinkAt(Top.links, Top.i))
    /\ stack' = Caught
    /\ UNCHANGED <<config, engine, phase, result, fetched, pages>>

\* lines 123-126: the recursive call for the next link
FollowLink ==
    /\ At("loop")
    /\ Top.i <= Len(Top.links)
    /\ ~UrlJoinRaises(Top.url, LinkAt(Top.links, Top.i))
    /\ stack' = Append([stack EXCEPT ![Len(stack)].i = NextIndex(Top.i)],
                       NewFrame(NextUrl(Top.url, LinkAt(Top.links, Top.i)),
                                ChildDepth(Top.current_depth)))
    /\ UNCHANGED <<config, engine, phase, result, fetched, pages>>

\* the for loop of line 122 is exhausted: crawl() returns
LoopEnd ==
    /\ At("loop")
    /\ Top.i > Len(Top.links)
    /\ stack' = Pop
    /\ UNCHANGED <<config, engine, phase, result, fetched, pages>>

\* lines 138-140: crawl(self.start_url) has returned
Return ==
    /\ phase = "running"
    /\ stack = <<>>
    /\ phase' = "returned"
    /\ result' = Some([words |-> words, emails |-> emails])
    /\ UNCHANGED <<config, engine, stack, fetched, pages>>

Next ==
    \/ Run
    \/ CrawlSkip
    \/ CrawlRaise
    \/ CrawlOutOfScope
    \/ CrawlVisit
    \/ FetchError
    \/ FetchOk
    \/ ParseError
    \/ Parse
    \/ ExtractWords
    \/ ExtractEmails
    \/ ExtractMeta
    \/ LeafReturn
    \/ FindLinks
    \/ LinkError
    \/ FollowLink
    \/ LoopEnd
    \/ Return

Spec == Init /\ [][Next]_vars

\* run() under the scheduling of a sequential program: a step that can be
\* taken is taken
FairSpec == Spec /\ WF_vars(Next)

\* run() is called again on the same engine after it returned: lines 133-137
\* start crawl(self.start_url) anew and nothing resets lines 33-35's state.
\* fetched and pages record the session.get calls of the call in progress.
Rerun ==
    /\ phase = "returned"
    /\ phase' = "running"
    /\ stack' = <<NewFrame(start_url, 0)>>
    /\ result' = None
    /\ fetched' = <<>>
    /\ pages' = [u \in {} |-> PageRecord("ok", DocUnparseable, 0)]
    /\ UNCHANGED <<config, engine>>

\* an engine whose run() may be called any number of times
RerunNext == Next \/ Rerun
RerunSpec == Init /\ [][RerunNext]_vars

\* the texts the e-mail extraction is explored on: every text of at most
\* MaxTextLen characters over a letter, a digit and the pattern's punctuation
EmailAlphabet == {"a", "1", ".", "@", "|"}
EmailTexts == UNION {[1..n -> EmailAlphabet] : n \in 0..MaxTextLen}

\* PyCeWL(url, depth=0, email_file="e") on a site whose page has such a text
EmailInit ==
    /\ \E text \in EmailTexts :
        site = [docs |-> {Document(TRUE, text, <<>>)}, hrefs |-> {}]
    /\ start_url = UrlRoot
    /\ depth = 0
    /\ min_word_length = DefaultSettings.min_word_length
    /\ max_word_length = DefaultSettings.max_word_length
    /\ with_numbers = DefaultSettings.with_numbers
    /\ email_file = Some(<<"e">>)
    /\ meta = DefaultSettings.meta
    /\ InitEngine

\* the steps of run() on a single page at the depth bound
EmailNext ==
    \/ Run
    \/ CrawlVisit
    \/ FetchError
    \/ FetchOk
    \/ Parse
    \/ ExtractWords
    \/ ExtractEmails
    \/ ExtractMeta
    \/ LeafReturn
    \/ Return

EmailSpec == EmailInit /\ [][EmailNext]_vars

\* PyCeWL(url, depth) with the default settings on a site of four pages of
\* one host, whose pages link to each other in every way
TreeInit ==
    /\ start_url = UrlRoot
    /\ site = [docs |-> {Document(TRUE, TextFox, <<>>)},
               hrefs |-> {HrefB, HrefC, HrefQuery}]
    /\ depth \in 1..MaxDepth
    /\ min_word_length = DefaultSettings.min_word_length
    /\ max_word_length = DefaultSettings.max_word_length
    /\ with_numbers = DefaultSettings.with_numbers
    /\ email_file = DefaultSettings.email_file
    /\ meta = DefaultSettings.meta
    /\ InitEngine

\* the steps of run() on such a site: every page parses, every URL is in
\* scope and every href resolves
TreeNext ==
    \/ Run
    \/ CrawlSkip
    \/ CrawlVisit
    \/ FetchError
    \/ FetchOk
    \/ Parse
    \/ ExtractWords
    \/ ExtractEmails
    \/ ExtractMeta
    \/ LeafReturn
    \/ FindLinks
    \/ FollowLink
    \/ LoopEnd
    \/ Return

TreeSpec == TreeInit /\ [][TreeNext]_vars

(***************************************************************************)
(* What the claims speak of                                                *)
(***************************************************************************)
FetchedUrls == {fetched[i].url : i \in DOMAIN fetched}
OkPages == {u \in DOMAIN pages : pages[u].status = "ok"}
Netloc(url) == urlparse(url).netloc
\* the k-th href of page u was reached by the loop of line 122: no href before
\* it, nor itself, made urljoin raise
Resolved(u, k) == \A m \in 1..k : ~UrlJoinRaises(u, pages[u].hrefs[m])
\* the link targets of page u that the loop resolved
Targets(u) ==
    {NextUrl(u, pages[u].hrefs[k]) : k \in {x \in DOMAIN pages[u].hrefs : Resolved(u, x)}}
\* position of url in the fetch order, 0 when it was not fetched
FetchIndex(url) ==
    IF url \in FetchedUrls THEN CHOOSE i \in DOMAIN fetched : fetched[i].url = url ELSE 0

(***************************************************************************)
(* C1: no URL is fetched more than once: the fetches are of pairwise       *)
(* distinct URLs, each a member of visited_urls, and the number of crawl   *)
(* calls that passed the checks of lines 80-84 (the fetches issued, plus   *)
(* the one about to be issued) is the cardinality of visited_urls.         *)
(***************************************************************************)
C1_FetchedOnce ==
    /\ \A i, j \in DOMAIN fetched : i # j => fetched[i].url # fetched[j].url
    /\ FetchedUrls \subseteq visited_urls
    /\ Cardinality(visited_urls) = Len(fetched) + (IF At("get") THEN 1 ELSE 0)
    /\ phase = "returned" => Cardinality(visited_urls) = Len(fetched)

\* a URL fetched at depth 2 is met again as a link at depth 1
C1_Witness ==
    /\ At("guard")
    /\ Top.url \in FetchedUrls
    /\ pages[Top.url].current_depth > Top.current_depth
    /\ Top.current_depth >= 1

(***************************************************************************)
(* C2: every fetch happens at a depth within 0..depth; with depth 0 only   *)
(* the start URL is fetched; with depth 1 nothing but the start URL and    *)
(* the link targets of the start page is fetched (so a page linked only    *)
(* from a depth-1 page is not).                                            *)
(***************************************************************************)
C2_DepthBound ==
    /\ \A i \in DOMAIN fetched :
        fetched[i].current_depth >= 0 /\ fetched[i].current_depth <= depth
    /\ depth = 0 => FetchedUrls \subseteq {start_url}
    /\ depth = 1 => \A u \in FetchedUrls :
                        u = start_url \/ (start_url \in OkPages /\ u \in Targets(start_url))
    /\ fetched # <<>> => fetched[1] = [url |-> start_url, current_depth |-> 0]

\* a run with depth 1 has ended after a page at depth 1 was fetched and parsed
C2_Witness ==
    /\ phase = "returned"
    /\ depth = 1
    /\ \E u \in OkPages : pages[u].current_depth = 1

(***************************************************************************)
(* C3: every visited (hence every fetched) URL has the netloc of the start *)
(* URL; and when the run has returned, every link target with that netloc  *)
(* that the loop of a page below the depth bound resolved, whatever its    *)
(* scheme and path, is visited.                                            *)
(***************************************************************************)
C3_Scope ==
    /\ \A u \in visited_urls : Netloc(u) = Netloc(start_url)
    /\ phase = "returned" =>
        \A u \in OkPages : pages[u].current_depth < depth =>
            \A t \in Targets(u) : Netloc(t) = Netloc(start_url) => t \in visited_urls

\* a page linked to another host and to another scheme; only the latter was
\* visited
C3_Witness ==
    /\ phase = "returned"
    /\ \E u \in OkPages :
        /\ NextUrl(u, HrefOther) \in Targets(u)
        /\ NextUrl(u, HrefScheme) \in Targets(u)
    /\ NextUrl(start_url, HrefScheme) \in visited_urls
    /\ NextUrl(start_url, HrefScheme) # start_url

C5_Terminates ==
    /\ <>(phase \in {"returned", "raised"})
    /\ [][(At("guard") /\ phase' = "running" /\ Len(stack') = Len(stack) /\ stack' # stack)
            => (visited_urls \subseteq visited_urls' /\ visited_urls' # visited_urls)]_vars

\* a run over a cycle of links (a page links back to the start page) has
\* returned
C5_Witness ==
    /\ phase = "returned"
    /\ depth >= 2
    /\ \E u \in OkPages : u # start_url /\ start_url \in Targets(u)

(***************************************************************************)
(* C6: every key of the tally has a length, as stored, within              *)
(* min_word_length..max_word_length and is its own lower-case form.        *)
(***************************************************************************)
C6_KeysWithinBounds ==
    \A w \in DOMAIN words :
        /\ Len(w) >= min_word_length
        /\ (max_word_length = None \/ Len(w) <= max_word_length[1])
        /\ w = lower(w)

(***************************************************************************)
(* C7: when run() has returned, the count of every word is the number of   *)
(* its kept occurrences (tokens of a length within the bounds, lower-      *)
(* cased) in the text of the parsed pages, plus those in their meta        *)
(* contents exactly when meta is set; a single page "the quick brown fox"  *)
(* with min_word_length 5 and no meta content merged gives quick: 1,       *)
(* brown: 1.                                                               *)
(***************************************************************************)
KeptToken(token) ==
    /\ Len(token) >= min_word_length
    /\ (max_word_length = None \/ Len(token) <= max_word_length[1])
\* the kept tokens of a text, lower-cased, in order
KeptTokens(text) ==
    LET kept == SelectSeq(FindAllWords(with_numbers, text, 1), KeptToken)
    IN  [i \in DOMAIN kept |-> lower(kept[i])]
\* the sum of f[i] over i in 1..n
Sum(f, n) == LET S[i \in 0..n] == IF i = 0 THEN 0 ELSE S[i - 1] + f[i] IN S[n]
\* the kept tokens of a parsed page: those of its text, then those of its
\* meta contents when meta is set
PageTokens(doc) ==
    LET M[i \in 0..Len(doc.metas)] ==
            IF i = 0 THEN <<>> ELSE M[i - 1] \o KeptTokens(doc.metas[i])
    IN  KeptTokens(doc.text) \o (IF meta THEN M[Len(doc.metas)] ELSE <<>>)
\* per fetch, the kept tokens of the page when it was parsed
FetchTokens ==
    [i \in DOMAIN fetched |->
        IF pages[fetched[i].url].status = "ok"
        THEN PageTokens(pages[fetched[i].url].doc) ELSE <<>>]
Occurrences(w, tokens) == Cardinality({i \in DOMAIN tokens : tokens[i] = w})
WordQuick == <<"q","u","i","c","k">>
WordBrown == <<"b","r","o","w","n">>

C7_TallyIsSum ==
    phase = "returned" =>
        /\ Let(FetchTokens, LAMBDA kept :
                \A w \in DOMAIN words \cup UNION {Range(kept[i]) : i \in DOMAIN kept} :
                    Sum([i \in DOMAIN kept |-> Occurrences(w, kept[i])], Len(kept))
                        = (IF w \in DOMAIN words THEN words[w] ELSE 0))
        /\ \A w \in DOMAIN words : words[w] >= 1
        /\ result = Some([words |-> words, emails |-> emails])
        /\ (/\ Len(fetched) = 1 /\ OkPages = {start_url}
            /\ pages[start_url].doc.text = TextFox
            /\ (~meta \/ pages[start_url].doc.metas = <<>>)
            /\ min_word_length = 5 /\ max_word_length = None)
           => words = [w \in {WordQuick, WordBrown} |-> 1]

\* two pages "the quick brown fox" with meta content "brown Fox" were merged
\* with meta set
C7_Witness ==
    /\ phase = "returned"
    /\ meta
    /\ min_word_length = 5
    /\ Cardinality(OkPages) = 2
    /\ WordBrown \in DOMAIN words
    /\ words[WordBrown] = 4

(***************************************************************************)
(* C8: visited_urls holds only URLs without a fragment, the start URL      *)
(* included, no two fetched URLs are equal after stripping the fragment,   *)
(* and a resolved link target that differs from the page's URL in its      *)
(* query string is fetched as well.                                        *)
(***************************************************************************)
C8_FragmentsStripped ==
    /\ \A u \in visited_urls : u = StripFragment(u)
    /\ \A i, j \in DOMAIN fetched :
        i # j => StripFragment(fetched[i].url) # StripFragment(fetched[j].url)
    /\ phase = "returned" =>
        \A u \in OkPages : pages[u].current_depth < depth =>
            \A t \in Targets(u) :
                (urlparse(t).query # urlparse(u).query /\ Netloc(t) = Netloc(start_url))
                    => t \in FetchedUrls

(***************************************************************************)
(* C9: emails stays empty when e-mail extraction is off (email_file is     *)
(* None or empty); when it is on and run() has returned, emails is the     *)
(* set of the addresses found in the text of the parsed pages, none from   *)
(* a meta content.                                                         *)
(***************************************************************************)
EmailEnabled == email_file \notin {None, Some(<<>>)}
MailAB == <<"a","@","b",".","c","d">>
MailXY == <<"x","@","y",".","z","z">>
MailMeta == <<"m","@","n",".","o","p">>

C9_Emails ==
    /\ ~EmailEnabled => emails = {}
    /\ MailMeta \notin emails
    /\ (EmailEnabled /\ phase = "returned") =>
        /\ emails = UNION {Range(extract_emails(pages[u].doc.text)) : u \in OkPages}
        /\ result[1].emails = emails
        /\ (\E u \in OkPages : pages[u].doc.text = TextMail) => {MailAB, MailXY} \subseteq emails

\* with extraction on, two pages were parsed, one of them with addresses in
\* its text (one of them twice) and in a meta content
C9_Witness ==
    /\ phase = "returned"
    /\ EmailEnabled
    /\ Cardinality(OkPages) = 2
    /\ \E u \in OkPages : pages[u].doc.text = TextMail /\ MetaMail \in Range(pages[u].doc.metas)
    /\ \E u \in OkPages : pages[u].doc.text # TextMail
    /\ emails = {MailAB, MailXY}

(***************************************************************************)
(* C10: when depth is below 0 or the start URL's fetch or parse failed,    *)
(* run() does not raise and the tally and the e-mail set stay empty; when  *)
(* run() has returned and no page was parsed, its result is the empty      *)
(* tally and the empty set.                                                *)
(***************************************************************************)
C10_EmptyResult ==
    /\ (depth < 0 \/ (start_url \in DOMAIN pages /\ pages[start_url].status # "ok")) =>
        (phase # "raised" /\ words = EmptyCounter /\ emails = {})
    /\ (phase = "returned" /\ OkPages = {}) =>
        result = Some([words |-> EmptyCounter, emails |-> {}])

\* the fetch of the start URL failed and run() returned the empty result
C10_Witness ==
    /\ phase = "returned"
    /\ depth >= 1
    /\ start_url \in DOMAIN pages
    /\ pages[start_url].status = "fetch_error"
    /\ result = Some([words |-> EmptyCounter, emails |-> {}])

(***************************************************************************)
(* C11: a call of run() starts from the empty state (nothing visited, an   *)
(* empty tally, no e-mail) and fetches what a first call fetches: when it  *)
(* has returned with a depth of 0 or more, the start URL was fetched in    *)
(* that call.                                                              *)
(***************************************************************************)
\* run() has just called crawl(self.start_url)
RunStarts ==
    /\ phase = "running"
    /\ Len(stack) = 1
    /\ Top.pc = "guard"
    /\ Top.current_depth = 0

C11_RunScoped ==
    /\ RunStarts => (visited_urls = {} /\ words = EmptyCounter /\ emails = {})
    /\ (phase = "returned" /\ depth >= 0) => start_url \in FetchedUrls

(***************************************************************************)
(* C12: every address extract_emails returned has the shape                *)
(* local@domain.label: a non-empty local part, an "@", a non-empty domain, *)
(* and after its last dot a label of at least 2 characters, all letters.   *)
(***************************************************************************)
\* the index of the last c in s, 0 when there is none
LastIndexOf(s, c) == Max({0} \cup {i \in DOMAIN s : s[i] = c})
EmailShape(e) ==
    Let(LastIndexOf(e, "."), LAMBDA dot :
        /\ dot > 0
        /\ Len(e) - dot >= 2
        /\ \A i \in (dot + 1)..Len(e) : e[i] \in AsciiLetter
        /\ \E at \in 2..(dot - 2) : e[at] = "@")

C12_EmailShape == \A e \in emails : EmailShape(e)

(***************************************************************************)
(* C13: a URL is in visited_urls before its fetch is issued and stays      *)
(* there whatever the outcome: the call about to fetch has its URL in      *)
(* visited_urls, every session.get is of a URL already in visited_urls and *)
(* not fetched before, visited_urls loses no URL, and a URL whose fetch    *)
(* failed keeps that outcome: it is never fetched again.                   *)
(***************************************************************************)
FailedUrls == {u \in DOMAIN pages : pages[u].status = "fetch_error"}

C13_VisitedBeforeFetch ==
    /\ [](At("get") => (Top.url \in visited_urls /\ Top.url \notin FetchedUrls))
    /\ [][/\ fetched' # fetched =>
                /\ Len(fetched') = Len(fetched) + 1
                /\ fetched'[Len(fetched')].url \in visited_urls
                /\ fetched'[Len(fetched')].url \notin FetchedUrls
           /\ visited_urls \subseteq visited_urls'
           /\ \A u \in FailedUrls :
                /\ u \in visited_urls'
                /\ u \in DOMAIN pages' /\ pages'[u] = pages[u]
                /\ Cardinality({i \in DOMAIN fetched' : fetched'[i].url = u}) = 1]_vars

\* a URL whose fetch failed is met again as a link of a later page
C13_Witness ==
    /\ At("guard")
    /\ Top.url \in FailedUrls
    /\ Top.url \in visited_urls
    /\ Top.current_depth <= depth
    /\ Len(fetched) >= 3

(***************************************************************************)
(* C14: a failed fetch changes neither the tally nor the e-mail set nor    *)
(* visited_urls and ends the call (no link of the page is followed, none   *)
(* is ever recorded for it); the step before it, which marks the URL       *)
(* visited, changes nothing but visited_urls, by that URL alone.           *)
(***************************************************************************)
\* a step that issues a fetch that fails
FailedFetchStep ==
    /\ fetched' # fetched
    /\ fetched'[Len(fetched')].url \in FailedUrls'
\* a step that marks a URL visited
VisitStep == visited_urls' # visited_urls

C14_FailedFetchFrame ==
    /\ [](\A u \in FailedUrls : pages[u].hrefs = <<>> /\ pages[u].doc = DocUnparseable)
    /\ [][FailedFetchStep =>
            (/\ words' = words
             /\ emails' = emails
             /\ visited_urls' = visited_urls
             /\ stack' = Pop)]_vars
    /\ [][VisitStep =>
            (/\ words' = words
             /\ emails' = emails
             /\ Top.url \notin visited_urls
             /\ visited_urls' = visited_urls \cup {Top.url})]_vars

\* after a parsed page put words in the tally, the fetch of one of its links
\* failed and the run returned
C14_Witness ==
    /\ phase = "returned"
    /\ words # EmptyCounter
    /\ \E u \in FailedUrls : pages[u].current_depth = 1 /\ u \in Targets(start_url)
    /\ Cardinality(visited_urls) = 2
    /\ Cardinality(OkPages) = 1

(***************************************************************************)
(* C15: the traversal is sequential and depth-first in link order.  (1)    *)
(* Only the innermost call can be fetching: each call under it is inside   *)
(* its link loop, on a parsed page, and called the one above it for the    *)
(* link it is at.  (2) When a fetch is issued, the tally is that of every  *)
(* page fetched before: a page is merged before any of its links is        *)
(* visited.  (3) Each fetch is issued in pre-order: a fetch                *)
(* below depth 0 is of a link of the last page fetched one level above it, *)
(* every fetch between the two is at least as deep (it belongs to an       *)
(* earlier link's subtree), and the links of one page are fetched in the   *)
(* order the page lists them.                                              *)
(***************************************************************************)
Min(S) == CHOOSE x \in S : \A y \in S : x <= y
\* the link targets of page u in the order of its links, None from the first
\* link on that urljoin rejects
TargetList(u) ==
    LET hrefs == pages[u].hrefs
        T[k \in 0..Len(hrefs)] ==
            IF k = 0 THEN <<>>
            ELSE IF (k > 1 /\ T[k - 1][k - 1] = None) \/ UrlJoinRaises(u, hrefs[k])
            THEN Append(T[k - 1], None)
            ELSE Append(T[k - 1], Some(NextUrl(u, hrefs[k])))
    IN  T[Len(hrefs)]
\* the first place of target t in such a list, 0 when there is none
IndexIn(targets, t) ==
    LET S == {k \in DOMAIN targets : targets[k] = Some(t)}
    IN  IF S = {} THEN 0 ELSE Min(S)
\* the first link of page u whose target is t, 0 when there is none
LinkIndex(u, t) == IndexIn(TargetList(u), t)
\* the fetches before the k-th that are one level above it
Above(k) ==
    {p \in 1..(k - 1) : fetched[p].current_depth = fetched[k].current_depth - 1}

OneCallActive ==
    \A k \in 1..(Len(stack) - 1) :
        /\ stack[k].pc = "loop"
        /\ stack[k].url \in OkPages
        /\ (stack[k].i - 1) \in DOMAIN stack[k].links
        /\ stack[k + 1].url = NextUrl(stack[k].url, stack[k].links[stack[k].i - 1])
        /\ stack[k + 1].current_depth = stack[k].current_depth + 1

\* per document of the site, the kept tokens of a page that parsed as it
DocTokens == [d \in site.docs |-> IF d.parses THEN PageTokens(d) ELSE <<>>]

\* every page fetched so far has its words in the tally
Merged ==
    Let(DocTokens, LAMBDA kept :
        \A w \in DOMAIN words \cup UNION {Range(kept[d]) : d \in DOMAIN kept} :
            Sum([i \in DOMAIN fetched |->
                    IF fetched[i].url \in OkPages
                    THEN Occurrences(w, kept[pages[fetched[i].url].doc]) ELSE 0],
                Len(fetched))
                = (IF w \in DOMAIN words THEN words[w] ELSE 0))
\* a step that issues a fetch
FetchStep == fetched' # fetched

\* the k-th fetch is in pre-order
PreOrder(k) ==
    fetched[k].current_depth > 0 =>
        /\ Above(k) # {}
        /\ Let(Max(Above(k)), LAMBDA p :
                /\ fetched[p].url \in OkPages
                /\ Let(TargetList(fetched[p].url), LAMBDA targets :
                        /\ IndexIn(targets, fetched[k].url) > 0
                        /\ \A m \in (p + 1)..(k - 1) :
                            /\ fetched[m].current_depth >= fetched[k].current_depth
                            /\ fetched[m].current_depth = fetched[k].current_depth =>
                                IndexIn(targets, fetched[m].url)
                                    < IndexIn(targets, fetched[k].url)))

C15_DepthFirst ==
    /\ []OneCallActive
    /\ [][FetchStep => (Merged /\ PreOrder(Len(fetched))')]_vars

\* the start page lists L1 before L2; L1 and a page under it were fetched,
\* then L2
C15_Witness ==
    /\ phase = "returned"
    /\ Len(fetched) = 4
    /\ fetched[2].current_depth = 1
    /\ fetched[3].current_depth = 2
    /\ fetched[4].current_depth = 1
    /\ LinkIndex(start_url, fetched[2].url) = 1
    /\ LinkIndex(start_url, fetched[4].url) = 2
    /\ words # EmptyCounter

(***************************************************************************)
(* C16: each fetch at a depth d > 0 is of a link target of a page that was *)
(* fetched at depth d - 1 and parsed, so the URL is joined to the start    *)
(* URL by a chain of d links through parsed pages, one per depth; a fetch  *)
(* at depth 0 is of the start URL.                                         *)
(***************************************************************************)
\* the URLs joined to the start URL by a chain of d links through pages that
\* were parsed at the depths 0 .. d - 1
Reach(d) ==
    LET R[i \in 0..d] ==
            IF i = 0 THEN {start_url}
            ELSE UNION {Targets(u) : u \in {v \in R[i - 1] \cap OkPages :
                                                pages[v].current_depth = i - 1}}
    IN  R[d]
\* the k-th fetch is one of a discovered URL
Discovered(k) ==
    /\ fetched[k].current_depth >= 0
    /\ fetched[k].url \in Reach(fetched[k].current_depth)
    /\ fetched[k].current_depth > 0 =>
        \E u \in OkPages :
            /\ pages[u].current_depth = fetched[k].current_depth - 1
            /\ fetched[k].url \in Targets(u)

C16_LinkHops == [][FetchStep => Discovered(Len(fetched))']_vars

\* a URL listed on the start page was fetched at depth 2, through another
\* page: not by the shortest chain
C16_Witness ==
    /\ phase = "returned"
    /\ start_url \in OkPages
    /\ \E k \in DOMAIN fetched :
        /\ fetched[k].current_depth = 2
        /\ fetched[k].url \in Targets(start_url)
        /\ Discovered(k)

(***************************************************************************)
(* C17: when run() has returned, every link of a parsed page fetched below *)
(* the depth bound whose target (resolved, fragment stripped) has the      *)
(* start URL's netloc has that target in visited_urls.                     *)
(***************************************************************************)
\* the link targets of page u: of every href of it that urljoin resolves
AllTargets(u) ==
    {NextUrl(u, pages[u].hrefs[k]) :
        k \in {x \in DOMAIN pages[u].hrefs : ~UrlJoinRaises(u, pages[u].hrefs[x])}}

C17_LinksVisited ==
    phase = "returned" =>
        \A u \in OkPages : pages[u].current_depth < depth =>
            \A t \in AllTargets(u) :
                (~urlparse(t).invalid /\ is_valid_url(start_url, t)) => t \in visited_urls

(***************************************************************************)
(* C18: in every step visited_urls, emails and the tally only grow: no     *)
(* URL, address or key is removed and no count decreases.                  *)
(***************************************************************************)
C18_OnlyGrows ==
    [][/\ visited_urls \subseteq visited_urls'
       /\ emails \subseteq emails'
       /\ DOMAIN words \subseteq DOMAIN words'
       /\ \A w \in DOMAIN words : words'[w] >= words[w]]_vars

\* two pages were merged: a count grew to 2 or more and addresses were kept
C18_Witness ==
    /\ phase = "returned"
    /\ Cardinality(OkPages) = 2
    /\ Cardinality(visited_urls) = 2
    /\ emails # {}
    /\ \E w \in DOMAIN words : words[w] >= 2
    /\ \E u \in OkPages : extract_emails(pages[u].doc.text) = <<>>

(***************************************************************************)
(* C19: merging two pages is order-independent: whenever a page is about   *)
(* to be merged, merging any two documents of the site into the current    *)
(* tally and e-mail set gives the same tally and the same set in either    *)
(* order.                                                                  *)
(***************************************************************************)
\* what lines 103, 108 and 117 extract from a page: the words of its text,
\* the words of each meta content, the addresses of its text
PageLists(doc) ==
    [words |-> extract_words(doc.text, with_numbers, min_word_length, max_word_length),
     metas |-> [i \in DOMAIN doc.metas |->
                    extract_words(doc.metas[i], with_numbers,
                                  min_word_length, max_word_length)],
     emails |-> extract_emails(doc.text)]
\* lines 104, 109 and 118 on the pair <<tally, e-mail set>>
MergePage(state, lists) ==
    LET M[i \in 0..Len(lists.metas)] ==
            IF i = 0 THEN CounterUpdate(state[1], lists.words)
            ELSE CounterUpdate(M[i - 1], lists.metas[i])
    IN  <<IF MetaWanted(meta) THEN M[Len(lists.metas)] ELSE M[0],
          IF EmailsWanted(email_file) THEN SetUpdate(state[2], lists.emails)
          ELSE state[2]>>

C19_MergeCommutes ==
    At("words") =>
        Let([d \in {x \in site.docs : x.parses} |-> PageLists(d)], LAMBDA page :
            \A d1, d2 \in DOMAIN page :
                MergePage(MergePage(<<words, emails>>, page[d1]), page[d2])
                    = MergePage(MergePage(<<words, emails>>, page[d2]), page[d1]))

\* with a page of words and no address already merged, a page with other
\* words and with addresses is about to be
C19_Witness ==
    /\ At("words")
    /\ Top.current_depth = 1
    /\ EmailsWanted(email_file)
    /\ words # EmptyCounter
    /\ emails = {}
    /\ Top.response.text = TextMail
    /\ pages[start_url].doc.text = TextFox
    /\ MergePage(<<words, emails>>, PageLists(Top.response)) # <<words, emails>>

(***************************************************************************)
(* C20: at most depth + 1 crawl calls that passed the checks of lines      *)
(* 80-84 are active at a time (and at most one more call, which is at      *)
(* those checks).                                                          *)
(***************************************************************************)
\* the active calls that passed the checks
PassedCalls == {k \in DOMAIN stack : stack[k].pc # "guard"}

C20_NestingBound ==
    /\ Cardinality(PassedCalls) <= depth + 1
    /\ Len(stack) <= depth + 2
    /\ \A k \in PassedCalls : stack[k].current_depth = k - 1

\* depth + 1 calls are nested, the innermost about to fetch
C20_Witness ==
    /\ At("get")
    /\ depth >= 2
    /\ Cardinality(PassedCalls) = depth + 1

====
